---- MODULE Spec2Model ----
(***************************************************************************)
(* BigUint (core/src/num/biguint.rs): an unsigned integer stored as a      *)
(* little-endian vector of limbs.  A BigUint is modelled as a sequence of  *)
(* limbs; the code's index i is the sequence's index i + 1.  The limb is   *)
(* u64 in the code; the model keeps the limb arithmetic exactly as written *)
(* (wrap-around, shifts, the bit tested by lshift) over a limb of LimbBits *)
(* bits, so that whole value ranges can be enumerated.                     *)
(***************************************************************************)
EXTENDS Integers, Sequences, FiniteSets

VARIABLES overflow_checks, call, ret, frame, euclid

vars == <<overflow_checks, call, ret, frame, euclid>>

----
\* Bounds of the model.

\* Width of one limb in bits (u64 in the code).
LimbBits == 5
\* Longest stored limb vector of an operand.
MaxLen == 2
\* Most limbs of the two factors of a product together.
MaxMulLimbs == 4
\* Largest base value and largest exponent limb given to pow.
MaxPowBase == 3
MaxPowExp == 3
\* Steps of one divmod call that a caller waits for.
DivFuel == 400
\* Stored limbs of step_size that the stepwise divmod keeps.
MaxStepLimbs == 8

Base == 2 ^ LimbBits
MaxLimb == Base - 1
\* The bit lshift tests (1u64 << 62) and the top bit (>> 63, << 63).
Bit62 == 2 ^ (LimbBits - 2)
Bit63 == 2 ^ (LimbBits - 1)

Max2(x, y) == IF x >= y THEN x ELSE y

Zeros(n) == [k \in 1..n |-> 0]

----
\* Representation, accessors, comparison.

is_zero(v) == \A i \in 1..Len(v) : v[i] = 0

get(v, idx) == IF idx < Len(v) THEN v[idx + 1] ELSE 0

set(v, idx, new_value) ==
    LET grown == IF idx >= Len(v) THEN v \o Zeros(idx + 1 - Len(v)) ELSE v
    IN  [grown EXCEPT ![idx + 1] = new_value]

RECURSIVE cmp_loop(_, _, _)
cmp_loop(a, b, i) ==
    IF i = 0 THEN "Equal"
    ELSE LET v1 == get(a, i - 1)
             v2 == get(b, i - 1)
         IN  IF v1 < v2 THEN "Less"
             ELSE IF v1 > v2 THEN "Greater"
             ELSE cmp_loop(a, b, i - 1)

\* A comparison that decides by stored length first.
cmp_by_len(a, b) ==
    IF Len(a) < Len(b) THEN "Less"
    ELSE IF Len(a) > Len(b) THEN "Greater"
    ELSE cmp_loop(a, b, Len(a))

cmp(a, b) == cmp_loop(a, b, Max2(Len(a), Len(b)))

eq(a, b) == cmp(a, b) = "Equal"
lt(a, b) == cmp(a, b) = "Less"
gt(a, b) == cmp(a, b) = "Greater"
ge(a, b) == cmp(a, b) # "Less"

from(val) == <<val>>

----
\* Scaled accumulation, addition, multiplication.

RECURSIVE add_assign_loop(_, _, _, _, _, _, _)
add_assign_loop(self, other, mul_digit, shift, i, n, carry) ==
    IF i >= n THEN [value |-> self, carry |-> carry]
    ELSE LET a == get(self, i)
             b == IF i >= shift THEN get(other, i - shift) ELSE 0
             sum == a + (b * mul_digit) + carry
         IN  add_assign_loop(set(self, i, sum % Base), other, mul_digit, shift,
                             i + 1, n, sum \div Base)

\* The accumulation without the push of the final carry.
add_assign_internal_no_push(self, other, mul_digit, shift) ==
    add_assign_loop(self, other, mul_digit, shift, 0,
                    Max2(Len(self), Len(other) + shift), 0).value

add_assign_internal(self, other, mul_digit, shift) ==
    LET r == add_assign_loop(self, other, mul_digit, shift, 0,
                             Max2(Len(self), Len(other) + shift), 0)
    IN  IF r.carry # 0 THEN Append(r.value, r.carry) ELSE r.value

add_assign(self, other) == add_assign_internal(self, other, 1, 0)

add(a, b) == add_assign(a, b)

RECURSIVE mul_loop(_, _, _, _)
mul_loop(acc, self_clone, other, i) ==
    IF i >= Len(other) THEN acc
    ELSE mul_loop(add_assign_internal(acc, self_clone, get(other, i), i),
                  self_clone, other, i + 1)

mul_internal(self, other) == mul_loop(<<0>>, self, other, 0)

mul(a, b) == mul_internal(a, b)

----
\* Shifts by one bit.

\* value[i] <<= 1, then the bit shifted out of value[i - 1] is or-ed in; the
\* loop runs from the top limb down, so value[i - 1] is read before it is
\* shifted.
shift_limbs_left(v) ==
    [i \in 1..Len(v) |->
        ((v[i] * 2) % Base) + (IF i # 1 THEN v[i - 1] \div Bit63 ELSE 0)]

\* A left shift that grows the vector when either of the two top bits is set.
lshift_grow_on_top_bit(v) ==
    shift_limbs_left(IF v[Len(v)] >= Bit62 THEN Append(v, 0) ELSE v)

lshift(v) ==
    shift_limbs_left(IF (v[Len(v)] \div Bit62) % 2 # 0 THEN Append(v, 0) ELSE v)

\* value[i] >>= 1, then the low bit of get(i + 1) is or-ed in as the top bit;
\* the loop runs from limb 0 up, so get(i + 1) is read before it is shifted.
rshift(v) ==
    [i \in 1..Len(v) |-> (v[i] \div 2) + ((get(v, i) * Bit63) % Base)]

----
\* Subtraction.  b + carry and a - b - carry are u64 arithmetic: a build with
\* overflow checks panics when they overflow, a build without wraps.

Panic(msg) == [st |-> "panic", msg |-> msg]
Ok(v) == [st |-> "ok", value |-> v]

RECURSIVE sub_loop(_, _, _, _, _)
sub_loop(a, b, i, carry, res) ==
    IF i >= Max2(Len(a), Len(b))
    THEN IF carry # 0 THEN Panic("assertion failed: carry == 0") ELSE Ok(res)
    ELSE LET x == get(a, i)
             y == get(b, i)
         IN  IF overflow_checks /\ y + carry > MaxLimb
             THEN Panic("attempt to add with overflow")
             ELSE IF x >= (y + carry) % Base
             THEN IF overflow_checks /\ x - y - carry < 0
                  THEN Panic("attempt to subtract with overflow")
                  ELSE sub_loop(a, b, i + 1, 0,
                                Append(res, (x - y - carry + 2 * Base) % Base))
             ELSE sub_loop(a, b, i + 1, 1,
                           Append(res, (x + Base - y - carry) % Base))

sub(a, b) ==
    IF lt(a, b) THEN Panic("Number would be less than 0")
    ELSE IF eq(a, b) THEN Ok(from(0))
    ELSE sub_loop(a, b, 0, 0, <<>>)

----
\* divmod, one frame of locals stepped through its loops.

DivReturn(f, q, r) ==
    [f EXCEPT !.pc = "return", !.quotient = q, !.remaining_dividend = r]

divmod_enter(self, other) ==
    LET f == [pc |-> "outer", msg |-> "", self |-> self, other |-> other,
              remaining_dividend |-> self, quotient |-> from(0),
              step_size |-> from(1),
              step_size_times_other |-> mul(from(1), other)]
    IN  IF is_zero(other) THEN [f EXCEPT !.pc = "panic", !.msg = "Can't divide by 0"]
        ELSE IF eq(other, from(1)) THEN DivReturn(f, self, from(0))
        ELSE IF is_zero(self) THEN DivReturn(f, from(0), from(0))
        ELSE IF lt(self, other) THEN DivReturn(f, from(0), self)
        ELSE IF eq(self, other) THEN DivReturn(f, from(1), from(0))
        ELSE f

\* while &remaining_dividend >= other
divmod_outer(f) ==
    IF ge(f.remaining_dividend, f.other)
    THEN [f EXCEPT !.pc = "double"]
    ELSE [f EXCEPT !.pc = "return"]

\* while step_size_times_other < remaining_dividend
divmod_double(f) ==
    IF lt(f.step_size_times_other, f.remaining_dividend)
    THEN [f EXCEPT !.step_size = lshift(@),
                   !.step_size_times_other = lshift(@)]
    ELSE [f EXCEPT !.pc = "halve"]

\* while step_size_times_other > remaining_dividend
divmod_halve(f) ==
    IF gt(f.step_size_times_other, f.remaining_dividend)
    THEN [f EXCEPT !.step_size = rshift(@),
                   !.step_size_times_other = rshift(@)]
    ELSE [f EXCEPT !.pc = "subtract"]

\* remaining_dividend = &remaining_dividend - &step_size_times_other;
\* quotient += &step_size
divmod_subtract(f) ==
    LET d == sub(f.remaining_dividend, f.step_size_times_other)
    IN  IF d.st = "panic" THEN [f EXCEPT !.pc = "panic", !.msg = d.msg]
        ELSE [f EXCEPT !.pc = "outer",
                       !.remaining_dividend = d.value,
                       !.quotient = add_assign(@, f.step_size)]

divmod_step(f) ==
    CASE f.pc = "outer" -> divmod_outer(f)
      [] f.pc = "double" -> divmod_double(f)
      [] f.pc = "halve" -> divmod_halve(f)
      [] f.pc = "subtract" -> divmod_subtract(f)
      [] OTHER -> f

DivEnded(f) == f.pc \in {"return", "panic"}

\* Eight steps (a frame that has ended stays as it is).
divmod_steps(f) ==
    LET s1 == divmod_step(f)
        s2 == divmod_step(s1)
        s3 == divmod_step(s2)
        s4 == divmod_step(s3)
        s5 == divmod_step(s4)
        s6 == divmod_step(s5)
        s7 == divmod_step(s6)
    IN  divmod_step(s7)

RECURSIVE divmod_run(_, _)
divmod_run(f, fuel) ==
    IF DivEnded(f) THEN f
    ELSE IF fuel <= 0 THEN [f EXCEPT !.pc = "running"]
    ELSE divmod_run(divmod_steps(f), fuel - 8)

\* The call as its callers see it: (quotient, remainder), a panic, or still
\* running after DivFuel steps.
divmod(self, other) ==
    LET f == divmod_run(divmod_enter(self, other), DivFuel)
    IN  IF f.pc = "return"
        THEN [st |-> "ok", q |-> f.quotient, r |-> f.remaining_dividend]
        ELSE IF f.pc = "panic" THEN Panic(f.msg)
        ELSE [st |-> "running"]

----
\* Decimal formatting.  The text is the sequence of its character codes.

\* write!(f, "{}", n) of a u64: its decimal digits, most significant first.
RECURSIVE u64_to_string(_)
u64_to_string(n) ==
    IF n < 10 THEN <<48 + n>>
    ELSE Append(u64_to_string(n \div 10), 48 + (n % 10))

\* while !num.is_zero(): output.insert(0, digit); num = quotient
RECURSIVE fmt_loop(_, _)
fmt_loop(num, output) ==
    IF is_zero(num) THEN Ok(output)
    ELSE LET divmod_res == divmod(num, from(10))
         IN  IF divmod_res.st # "ok" THEN divmod_res
             ELSE fmt_loop(divmod_res.q,
                           <<((divmod_res.r[1] % 256) + 48)>> \o output)

\* A formatter that takes the single-limb path whatever the stored length.
fmt_first_limb_only(v) ==
    IF is_zero(v) THEN Ok(<<48>>) ELSE Ok(u64_to_string(v[1]))

fmt(v) ==
    IF is_zero(v) THEN Ok(<<48>>)
    ELSE IF Len(v) = 1 THEN Ok(u64_to_string(v[1]))
    ELSE fmt_loop(v, <<>>)

----
\* pow.

RECURSIVE pow_loop(_, _, _)
pow_loop(result, base, exponent) ==
    IF exponent > 0
    THEN pow_loop(IF exponent % 2 = 1 THEN mul(result, base) ELSE result,
                  mul(base, base), exponent \div 2)
    ELSE result

pow_internal(self, exponent) == pow_loop(from(1), self, exponent)

Err(msg) == [st |-> "err", msg |-> msg]

pow(a, b) ==
    IF is_zero(a) /\ is_zero(b)
    THEN Err("Zero to the power of zero is undefined")
    ELSE IF is_zero(b) THEN Ok(from(1))
    ELSE IF Len(b) > 1 THEN Err("Exponent too large")
    ELSE Ok(pow_internal(a, b[1]))

----
\* Logical value of a limb vector, and the operand sets.

RECURSIVE Val(_)
Val(v) == IF Len(v) = 0 THEN 0 ELSE v[1] + Base * Val(Tail(v))

RECURSIVE SeqsOfLen(_, _)
SeqsOfLen(S, n) ==
    IF n = 0 THEN {<<>>}
    ELSE {<<x>> \o t : x \in S, t \in SeqsOfLen(S, n - 1)}

\* Limb vectors of 1..n limbs over S (the code keeps len >= 1).
Nums(S, n) == UNION {SeqsOfLen(S, k) : k \in 1..n}

\* Limbs at the edges of the limb arithmetic: 0, 1, bit 62 alone, bit 63
\* alone, bit 63 with a lower bit, all ones.
EdgeLimbs == {0, 1, Bit62, Bit63, Bit63 + (Bit62 \div 2), MaxLimb}

Operands == Nums(EdgeLimbs, MaxLen)

\* Every vector of one or two limbs, and the edge vectors of any length.
UnaryOperands == Nums(0..MaxLimb, 2) \cup Operands

\* Decimal digits next to the edge limbs.
FmtOperands == Nums(0..MaxLimb, 2) \cup Nums(EdgeLimbs \cup {9, 10, 11}, MaxLen)

\* A minuend may be one limb longer than the subtrahend, so that a borrow
\* can enter any limb of the subtrahend.
Minuends == Nums(EdgeLimbs, MaxLen + 1)

\* Small bases with any number of stored zero limbs above them.
PowBases == {<<v>> \o Zeros(k) : v \in 0..MaxPowBase, k \in 0..(MaxLen - 1)}
PowExponents == Nums(0..MaxPowExp, MaxLen)

\* Dividends: the operands and some one limb longer.
Dividends == Operands \cup Nums({0, 1}, MaxLen + 1)

EuclidOperands == Operands

----
\* State: the build's overflow checks, the call made, what it returned, and,
\* for the calls that are stepped through, the frame of the running divmod
\* and the frame of the gcd or lcm that called it.

NoCall == [op |-> "none"]
NoRet == [st |-> "none"]
NoFrame == [pc |-> "idle"]
NoEuclid == [pc |-> "idle"]

Init ==
    /\ overflow_checks \in BOOLEAN
    /\ call = NoCall
    /\ ret = NoRet
    /\ frame = NoFrame
    /\ euclid = NoEuclid

Idle == call.op = "none"

CallCmp ==
    /\ Idle
    /\ \E a \in Operands, b \in Operands :
        /\ call' = [op |-> "cmp", a |-> a, b |-> b]
        /\ ret' = [st |-> "ok", ord |-> cmp(a, b), swapped |-> cmp(b, a),
                   eq |-> eq(a, b), lt |-> lt(a, b), gt |-> gt(a, b),
                   a_zero |-> is_zero(a)]
    /\ UNCHANGED <<overflow_checks, frame, euclid>>

CallAddAssignInternal ==
    /\ Idle
    /\ \E self \in Operands, other \in Operands, mul_digit \in EdgeLimbs,
          shift \in 0..MaxMulLimbs :
        /\ Len(other) + shift + 1 <= MaxMulLimbs
        /\ call' = [op |-> "add_assign_internal", a |-> self, b |-> other,
                    mul_digit |-> mul_digit, shift |-> shift]
        /\ ret' = Ok(add_assign_internal(self, other, mul_digit, shift))
    /\ UNCHANGED <<overflow_checks, frame, euclid>>

CallAdd ==
    /\ Idle
    /\ \E a \in Operands, b \in Operands :
        /\ call' = [op |-> "add", a |-> a, b |-> b]
        /\ ret' = [st |-> "ok", value |-> add(a, b), swapped |-> add(b, a),
                   plus_zero |-> add(a, from(0))]
    /\ UNCHANGED <<overflow_checks, frame, euclid>>

CallMul ==
    /\ Idle
    /\ \E a \in Operands, b \in Operands :
        /\ Len(a) + Len(b) <= MaxMulLimbs
        /\ call' = [op |-> "mul", a |-> a, b |-> b]
        /\ ret' = [st |-> "ok", value |-> mul(a, b), swapped |-> mul(b, a),
                   times_one |-> mul(a, from(1))]
    /\ UNCHANGED <<overflow_checks, frame, euclid>>

CallSub ==
    /\ Idle
    /\ \E a \in Minuends, b \in Operands :
        /\ call' = [op |-> "sub", a |-> a, b |-> b]
        /\ ret' = sub(a, b)
    /\ UNCHANGED <<overflow_checks, frame, euclid>>

CallShift ==
    /\ Idle
    /\ \E v \in UnaryOperands :
        /\ call' = [op |-> "shift", a |-> v]
        /\ ret' = [st |-> "ok", lshift |-> lshift(v), rshift |-> rshift(v),
                   back |-> rshift(lshift(v))]
    /\ UNCHANGED <<overflow_checks, frame, euclid>>

CallFmt ==
    /\ Idle
    /\ \E v \in FmtOperands :
        /\ call' = [op |-> "fmt", a |-> v]
        /\ ret' = fmt(v)
    /\ UNCHANGED <<overflow_checks, frame, euclid>>

CallPow ==
    /\ Idle
    /\ \E a \in PowBases, b \in PowExponents :
        /\ call' = [op |-> "pow", a |-> a, b |-> b]
        /\ ret' = pow(a, b)
    /\ UNCHANGED <<overflow_checks, frame, euclid>>

Next ==
    \/ CallCmp
    \/ CallAddAssignInternal
    \/ CallAdd
    \/ CallMul
    \/ CallSub
    \/ CallShift
    \/ CallFmt
    \/ CallPow

Spec == Init /\ [][Next]_vars

----
\* divmod, gcd and lcm stepped through their loops, one action per loop test
\* or body.

\* The frame with step_size cut to its MaxStepLimbs most significant stored
\* limbs.  Only step_size is cut, and no loop test reads it.
Window(f) ==
    IF Len(f.step_size) > MaxStepLimbs
    THEN [f EXCEPT !.step_size = Tail(@)]
    ELSE f

DivCall ==
    /\ Idle
    /\ \E self \in Dividends, other \in Operands :
        /\ call' = [op |-> "divmod", a |-> self, b |-> other]
        /\ frame' = divmod_enter(self, other)
    /\ UNCHANGED <<overflow_checks, ret, euclid>>

DivOuter ==
    /\ frame.pc = "outer"
    /\ frame' = divmod_outer(frame)
    /\ UNCHANGED <<overflow_checks, call, ret, euclid>>

DivDouble ==
    /\ frame.pc = "double"
    /\ frame' = Window(divmod_double(frame))
    /\ UNCHANGED <<overflow_checks, call, ret, euclid>>

DivHalve ==
    /\ frame.pc = "halve"
    /\ frame' = divmod_halve(frame)
    /\ UNCHANGED <<overflow_checks, call, ret, euclid>>

DivSubtract ==
    /\ frame.pc = "subtract"
    /\ frame' = divmod_subtract(frame)
    /\ UNCHANGED <<overflow_checks, call, ret, euclid>>

\* gcd(a, b)
GcdCall ==
    /\ Idle
    /\ \E a \in EuclidOperands, b \in EuclidOperands :
        /\ call' = [op |-> "gcd", a |-> a, b |-> b]
        /\ euclid' = [pc |-> "loop", a |-> a, b |-> b, prod |-> <<>>]
    /\ UNCHANGED <<overflow_checks, ret, frame>>

\* lcm(a, b): the product is evaluated, then gcd(a, b) is called.
LcmCall ==
    /\ Idle
    /\ \E a \in EuclidOperands, b \in EuclidOperands :
        /\ call' = [op |-> "lcm", a |-> a, b |-> b]
        /\ euclid' = [pc |-> "loop", a |-> a, b |-> b, prod |-> mul(a, b)]
    /\ UNCHANGED <<overflow_checks, ret, frame>>

\* while b >= 1.into() { let r = a.clone() % b.clone(); ...
GcdTest ==
    /\ euclid.pc = "loop"
    /\ IF ge(euclid.b, from(1))
       THEN /\ frame' = divmod_enter(euclid.a, euclid.b)
            /\ euclid' = [euclid EXCEPT !.pc = "rem"]
       ELSE /\ frame' = frame
            /\ euclid' = [euclid EXCEPT !.pc = "return"]
    /\ UNCHANGED <<overflow_checks, call, ret>>

\* ... a = b; b = r; }  (a panic of the division ends the call)
GcdAssign ==
    /\ euclid.pc = "rem"
    /\ DivEnded(frame)
    /\ IF frame.pc = "panic"
       THEN /\ ret' = Panic(frame.msg)
            /\ euclid' = [euclid EXCEPT !.pc = "done"]
       ELSE /\ ret' = ret
            /\ euclid' = [euclid EXCEPT !.pc = "loop", !.a = euclid.b,
                                        !.b = frame.remaining_dividend]
    /\ frame' = NoFrame
    /\ UNCHANGED <<overflow_checks, call>>

\* gcd returns a.
GcdReturn ==
    /\ euclid.pc = "return"
    /\ call.op = "gcd"
    /\ ret' = Ok(euclid.a)
    /\ euclid' = [euclid EXCEPT !.pc = "done"]
    /\ UNCHANGED <<overflow_checks, call, frame>>

\* lcm divides the product by the gcd returned.
LcmDivide ==
    /\ euclid.pc = "return"
    /\ call.op = "lcm"
    /\ frame' = divmod_enter(euclid.prod, euclid.a)
    /\ euclid' = [euclid EXCEPT !.pc = "div"]
    /\ UNCHANGED <<overflow_checks, call, ret>>

LcmReturn ==
    /\ euclid.pc = "div"
    /\ DivEnded(frame)
    /\ ret' = IF frame.pc = "panic" THEN Panic(frame.msg) ELSE Ok(frame.quotient)
    /\ euclid' = [euclid EXCEPT !.pc = "done"]
    /\ UNCHANGED <<overflow_checks, call, frame>>

DivNext ==
    \/ DivCall
    \/ DivOuter
    \/ DivDouble
    \/ DivHalve
    \/ DivSubtract

\* A call runs on one thread that nothing suspends: a step that can be taken
\* is taken.
DivSpec == Init /\ [][DivNext]_vars /\ WF_vars(DivNext)

EuclidNext ==
    \/ GcdCall
    \/ LcmCall
    \/ GcdTest
    \/ GcdAssign
    \/ GcdReturn
    \/ LcmDivide
    \/ LcmReturn
    \/ DivOuter
    \/ DivDouble
    \/ DivHalve
    \/ DivSubtract

EuclidSpec == Init /\ [][EuclidNext]_vars

----
\* Properties of the one-shot calls (Spec).

\* The order of two logical values.
ValOrd(x, y) == IF x < y THEN "Less" ELSE IF x > y THEN "Greater" ELSE "Equal"

\* C4: comparison, equality and the zero test depend only on the logical
\* (zero-padded) value: the order returned is the order of the values, exactly
\* one of a < b, a == b, a > b holds, vectors equal after zero-padding compare
\* equal, and is_zero is true exactly of the vectors whose value is 0,
\* whatever their stored length.
C4_CmpByValue ==
    call.op = "cmp" =>
        /\ ret.ord = ValOrd(Val(call.a), Val(call.b))
        /\ ret.swapped = ValOrd(Val(call.b), Val(call.a))
        /\ ret.lt = (Val(call.a) < Val(call.b))
        /\ ret.eq = (Val(call.a) = Val(call.b))
        /\ ret.gt = (Val(call.a) > Val(call.b))
        /\ Cardinality({x \in {<<1, ret.lt>>, <<2, ret.eq>>, <<3, ret.gt>>} : x[2]}) = 1
        /\ ret.a_zero = (Val(call.a) = 0)

\* Two nonzero vectors of different stored lengths compared equal.
C4_Witness ==
    /\ call.op = "cmp"
    /\ Len(call.a) # Len(call.b)
    /\ ~ret.a_zero
    /\ ret.eq

\* C5: add_assign_internal leaves self + other * mul_digit * 2^(64 * shift),
\* exactly; a + b is the exact sum and a * b the full product, both
\* commutative, with a + 0 == a and a * 1 == a.
C5_AccumulateExact ==
    /\ call.op = "add_assign_internal" =>
          Val(ret.value) =
              Val(call.a) + Val(call.b) * call.mul_digit * (Base ^ call.shift)
    /\ call.op = "add" =>
          /\ Val(ret.value) = Val(call.a) + Val(call.b)
          /\ eq(ret.value, ret.swapped)
          /\ eq(ret.plus_zero, call.a)
    /\ call.op = "mul" =>
          /\ Val(ret.value) = Val(call.a) * Val(call.b)
          /\ eq(ret.value, ret.swapped)
          /\ eq(ret.times_one, call.a)

\* A shifted, scaled accumulation whose final carry was appended as a limb.
C5_Witness ==
    /\ call.op = "add_assign_internal"
    /\ call.shift > 0
    /\ call.mul_digit = MaxLimb
    /\ Len(ret.value) > Max2(Len(call.a), Len(call.b) + call.shift)
    /\ ret.value[Len(ret.value)] # 0

\* The number a decimal text denotes.
RECURSIVE ParseDecimal(_)
ParseDecimal(text) ==
    IF Len(text) = 0 THEN 0
    ELSE 10 * ParseDecimal(SubSeq(text, 1, Len(text) - 1)) + (text[Len(text)] - 48)

\* C8: formatting depends only on the logical value and is canonical: "0" for
\* a value of zero of any stored length; otherwise decimal digits only, the
\* first one not '0', denoting the value (so logically equal values, such as
\* [5] and [5, 0], get the same text on either path).
C8_FmtCanonical ==
    call.op = "fmt" =>
        /\ ret.st = "ok"
        /\ Val(call.a) = 0 => ret.value = <<48>>
        /\ Val(call.a) # 0 =>
              /\ Len(ret.value) >= 1
              /\ ret.value[1] # 48
              /\ \A i \in 1..Len(ret.value) : ret.value[i] \in 48..57
              /\ ParseDecimal(ret.value) = Val(call.a)

\* A value of several decimal digits stored with a zero limb on top went
\* through the divmod path.
C8_Witness ==
    /\ call.op = "fmt"
    /\ Len(call.a) > 1
    /\ call.a[Len(call.a)] = 0
    /\ ret.st = "ok"
    /\ Len(ret.value) > 1

\* C2: a - b aborts with the precondition error exactly when a < b; when
\* a >= b it returns r with r + b == a (no overflow in between, final borrow
\* 0), whatever the limbs and stored lengths.
C2_SubExact ==
    call.op = "sub" =>
        IF Val(call.a) < Val(call.b)
        THEN ret = Panic("Number would be less than 0")
        ELSE /\ ret.st = "ok"
             /\ Val(ret.value) + Val(call.b) = Val(call.a)

\* C3: pow classifies by logical value: "undefined" iff base and exponent are
\* both zero; 1 for a zero exponent and a nonzero base; "exponent too large"
\* iff the exponent's value exceeds one limb; a^e otherwise.
C3_PowByValue ==
    call.op = "pow" =>
        LET x == Val(call.a)
            e == Val(call.b)
        IN  IF x = 0 /\ e = 0
            THEN ret = Err("Zero to the power of zero is undefined")
            ELSE IF e = 0 THEN ret.st = "ok" /\ Val(ret.value) = 1
            ELSE IF e > MaxLimb THEN ret = Err("Exponent too large")
            ELSE ret.st = "ok" /\ Val(ret.value) = x ^ e

\* C10: lshift yields exactly 2 * v with lowest bit 0, a following rshift
\* recovers v, and rshift alone yields floor(v / 2).
C10_ShiftExact ==
    call.op = "shift" =>
        /\ Val(ret.lshift) = 2 * Val(call.a)
        /\ ret.lshift[1] % 2 = 0
        /\ eq(ret.back, call.a)
        /\ Val(ret.rshift) = Val(call.a) \div 2

----
\* Properties of the stepped calls (DivSpec, EuclidSpec).

\* C1: divmod aborts with the division-by-zero error when the divisor is
\* logically zero, and otherwise returns (q, r) with q * b + r == a and r < b.
C1_DivmodLaw ==
    call.op = "divmod" /\ DivEnded(frame) =>
        IF Val(call.b) = 0
        THEN frame.pc = "panic" /\ frame.msg = "Can't divide by 0"
        ELSE /\ frame.pc = "return"
             /\ Val(frame.quotient) * Val(call.b) + Val(frame.remaining_dividend)
                    = Val(call.a)
             /\ Val(frame.remaining_dividend) < Val(call.b)

\* C9: every divmod call that was entered ends: its doubling and halving
\* loops end and the outer loop runs out.
C9_DivmodTerminates == (frame.pc # "idle") ~> DivEnded(frame)

Divides(d, x) == IF d = 0 THEN x = 0 ELSE x % d = 0

\* C6: gcd(a, b) returns a value, the greatest common divisor of a and b (so
\* the same for (b, a)), and gcd(a, 0) == a.
C6_GcdIsGcd ==
    call.op = "gcd" /\ euclid.pc = "done" =>
        /\ ret.st = "ok"
        /\ Divides(Val(ret.value), Val(call.a))
        /\ Divides(Val(ret.value), Val(call.b))
        /\ \A d \in 1..Max2(Val(call.a), Val(call.b)) :
              Divides(d, Val(call.a)) /\ Divides(d, Val(call.b))
                  => d <= Val(ret.value)
        /\ Val(call.b) = 0 => eq(ret.value, call.a)

\* C7: lcm(a, b) returns a value L with L * gcd(a, b) == a * b.
C7_LcmTimesGcd ==
    call.op = "lcm" /\ euclid.pc = "done" =>
        /\ ret.st = "ok"
        /\ Val(ret.value) * Val(euclid.a) = Val(call.a) * Val(call.b)

====
